---- MODULE Spec2Model ----
(***************************************************************************)
(* A model of backgammon/board.py: the side geometry, the derived          *)
(* properties of a move, _make_move, _get_all_move_sets,                   *)
(* _get_all_optimal_moves, play and roll_dice.                             *)
(*                                                                         *)
(* A Python exception is modelled as an outcome: every operator that       *)
(* models a function which can raise returns a record whose field err is   *)
(* "none" or the name of the exception class, and whose field msg is the   *)
(* exception's message.                                                    *)
(***************************************************************************)
EXTENDS Integers, Sequences, FiniteSets, TLC

(***************************************************************************)
(* Bounds of the model.                                                    *)
(***************************************************************************)
\* checkers a side has, on the board and in jail, in an initial position
MaxCheckers == 2
\* successful state changes (moves, turns) followed from an initial position
MaxMoves == 2
\* length of a move sequence handed to play
MaxSeqLen == 2
\* magnitude of a spot value handed to Side.owns_spot
MaxSpotValue == 15

(***************************************************************************)
(* Program constants.                                                      *)
(***************************************************************************)
START_FROM_JAIL_FLAG == -1

DICE_CHOICES == 1..6

NO_MOVE_EMPTY_SET == << >>

\* the length of the board tuple; its indices are 0 .. BoardLen - 1
BoardLen == 26

Points == 0..(BoardLen - 1)

Sides == {"WHITE", "BLACK"}

Abs(x) == IF x < 0 THEN -x ELSE x

\* Python's min and max of two ints
PyMin(a, b) == IF a <= b THEN a ELSE b
PyMax(a, b) == IF a >= b THEN a ELSE b

\* Python's tuple(range(first, stop, step)) for step = 1 or -1
RECURSIVE PyRange(_, _, _)
PyRange(first, stop, step) ==
    IF (step > 0 /\ first >= stop) \/ (step < 0 /\ first <= stop)
    THEN << >>
    ELSE <<first>> \o PyRange(first + step, stop, step)

(***************************************************************************)
(* class Side                                                              *)
(***************************************************************************)
token(side) == IF side = "WHITE" THEN 1 ELSE -1

direction(side) == token(side)

home(side) == IF side = "WHITE" THEN 25 ELSE 0

jail_start(side) == IF side = "WHITE" THEN 0 ELSE 25

\* functools.partial(cap, home): min(home, x) for WHITE, max(home, x) for BLACK
cap_to_home(side, x) ==
    IF side = "WHITE" THEN PyMin(home(side), x) ELSE PyMax(home(side), x)

\* progression with the range begun at jail_start itself
progression_from_jail_start ==
    [side \in Sides |->
        PyRange(jail_start(side), home(side) + direction(side),
                direction(side))]

\* computed once, when the Side is constructed
progression ==
    [side \in Sides |->
        LET first_spot == jail_start(side) + direction(side)
            inclusive_end == home(side) + direction(side)
        IN  PyRange(first_spot, inclusive_end, direction(side))]

other_side(side) == IF side = "WHITE" THEN "BLACK" ELSE "WHITE"

\* owns_spot without the comparison of the sign with the side's token
owns_any_nonzero(side, spot_value) == spot_value # 0

\* spot_value / abs(spot_value) is exactly 1 or -1 for a nonzero int
owns_spot(side, spot_value) ==
    spot_value # 0 /\ (spot_value \div Abs(spot_value)) = token(side)

(***************************************************************************)
(* class MoveTuple: a record [side, start, die_roll]                       *)
(***************************************************************************)
MoveTuple(side, start, die_roll) ==
    [side |-> side, start |-> start, die_roll |-> die_roll]

signed_roll(move) == move.die_roll * direction(move.side)

starts_in_jail(move) == move.start = START_FROM_JAIL_FLAG

effective_start(move) ==
    IF starts_in_jail(move) THEN jail_start(move.side) ELSE move.start

effective_end(move) ==
    cap_to_home(move.side, effective_start(move) + signed_roll(move))

\* MoveTuple.direction divides by abs(dist): it raises ZeroDivisionError
\* exactly when dist = 0
direction_raises(move) == effective_end(move) - effective_start(move) = 0

\* MoveTuple.direction where it does not raise
move_direction(move) ==
    LET dist == effective_end(move) - effective_start(move)
    IN  dist \div Abs(dist)

effective_distance(move) == Abs(effective_end(move) - effective_start(move))

uses_whole_roll(move) == effective_distance(move) = move.die_roll

(***************************************************************************)
(* The jail is a dict keyed by side: a function whose domain is a subset   *)
(* of Sides.                                                               *)
(***************************************************************************)
\* jail.get(side, 0)
JailGet(jail, side) == IF side \in DOMAIN jail THEN jail[side] ELSE 0

\* jail[side] = value
JailSet(jail, side, value) ==
    [s \in (DOMAIN jail) \cup {side} |-> IF s = side THEN value ELSE jail[s]]

(***************************************************************************)
(* Outcomes of the spot helpers: [err, value].                             *)
(***************************************************************************)
_is_stompable(spot_value) == spot_value < 2

_get_number_present(spot_value) == Abs(spot_value)

_increment_for_side(spot_value, side) ==
    IF owns_spot(other_side(side), spot_value)
    THEN [err |-> "ValueError", value |-> spot_value]
    ELSE [err |-> "none", value |-> spot_value + (1 * token(side))]

\* _decrement_for_side taking one off the value whatever the side's token
decrement_ignoring_token(spot_value, side) ==
    IF ~owns_spot(side, spot_value)
    THEN [err |-> "ValueError", value |-> spot_value]
    ELSE [err |-> "none", value |-> spot_value - 1]

_decrement_for_side(spot_value, side) ==
    IF ~owns_spot(side, spot_value)
    THEN [err |-> "ValueError", value |-> spot_value]
    ELSE [err |-> "none", value |-> spot_value - (1 * token(side))]

\* side.progression[:-7]: all but the last 7 entries of the path
FirstThreeQuarters(side) ==
    LET p == progression[side]
    IN  IF Len(p) <= 7 THEN << >> ELSE SubSeq(p, 1, Len(p) - 7)

_all_in_last_quarter(spots, side) ==
    LET first_three_quarters == FirstThreeQuarters(side)
    IN  \A k \in 1..Len(first_three_quarters) :
            LET spot_value == spots[first_three_quarters[k]]
            IN  owns_spot(side, spot_value)
                    => _get_number_present(spot_value) = 0

(***************************************************************************)
(* _make_move.  Its outcome is a record                                    *)
(*   err, msg     the exception raised, or "none"                          *)
(*   spots, jail  the function's local board and jail when it returned or  *)
(*                raised; they are its return value when err = "none" and  *)
(*                are dropped with the frame otherwise                     *)
(*   caller       the content of the objects the caller passed in          *)
(***************************************************************************)
\* spots = list(spots); jail = dict(jail): the locals are fresh copies, so
\* no later assignment reaches the caller's objects
\* CallerView without the copies: the locals are the caller's own objects
caller_view_aliased(arg_spots, arg_jail, local_spots, local_jail) ==
    [spots |-> local_spots, jail |-> local_jail]

CallerView(arg_spots, arg_jail, local_spots, local_jail) ==
    [spots |-> arg_spots, jail |-> arg_jail]

Outcome(err, msg, spots, jail, arg_spots, arg_jail) ==
    [err |-> err, msg |-> msg, spots |-> spots, jail |-> jail,
     caller |-> CallerView(arg_spots, arg_jail, spots, jail)]

\* spots[end] = _increment_for_side(spots[end], move.side); return
make_move_land(spots, jail, move, arg_spots, arg_jail) ==
    LET end == effective_end(move)
        inc == _increment_for_side(spots[end], move.side)
    IN  IF inc.err # "none"
        THEN Outcome(inc.err, "Cannot increment", spots, jail,
                     arg_spots, arg_jail)
        ELSE Outcome("none", "", [spots EXCEPT ![end] = inc.value], jail,
                     arg_spots, arg_jail)

\* handle any stomping
make_move_stomp(spots, jail, move, arg_spots, arg_jail) ==
    LET end == effective_end(move)
        other == other_side(move.side)
    IN  IF owns_spot(other, spots[end])
        THEN IF ~_is_stompable(spots[end])
             THEN Outcome("IllegalMoveException", "Unstompable formation.",
                          spots, jail, arg_spots, arg_jail)
             ELSE LET dec == _decrement_for_side(spots[end], other)
                      spots2 == [spots EXCEPT ![end] = dec.value]
                      inc == _increment_for_side(JailGet(jail, other), other)
                  IN  IF dec.err # "none"
                      THEN Outcome(dec.err, "Cannot decrement", spots, jail,
                                   arg_spots, arg_jail)
                      ELSE IF inc.err # "none"
                      THEN Outcome(inc.err, "Cannot increment", spots2, jail,
                                   arg_spots, arg_jail)
                      ELSE make_move_land(spots2,
                                          JailSet(jail, other, inc.value),
                                          move, arg_spots, arg_jail)
        ELSE make_move_land(spots, jail, move, arg_spots, arg_jail)

\* decrement starting point
make_move_leave(spots, jail, move, arg_spots, arg_jail) ==
    LET side == move.side
        dec == IF ~starts_in_jail(move)
               THEN _decrement_for_side(spots[effective_start(move)], side)
               ELSE _decrement_for_side(JailGet(jail, side), side)
    IN  IF dec.err # "none"
        THEN Outcome(dec.err, "Cannot decrement", spots, jail,
                     arg_spots, arg_jail)
        ELSE IF ~starts_in_jail(move)
        THEN make_move_stomp(
                 [spots EXCEPT ![effective_start(move)] = dec.value],
                 jail, move, arg_spots, arg_jail)
        ELSE make_move_stomp(spots, JailSet(jail, side, dec.value),
                             move, arg_spots, arg_jail)

_make_move(spots, jail, move) ==
    IF direction_raises(move)
    THEN Outcome("ZeroDivisionError", "division by zero", spots, jail,
                 spots, jail)
    ELSE IF move_direction(move) # direction(move.side)
    THEN Outcome("IllegalMoveException", "Wrong direction", spots, jail,
                 spots, jail)
    ELSE IF effective_end(move) = home(move.side)
            /\ ~_all_in_last_quarter(spots, move.side)
    THEN Outcome("IllegalMoveException",
                 "Cannot move into home when all not in last quarter",
                 spots, jail, spots, jail)
    ELSE make_move_leave(spots, jail, move, spots, jail)

(***************************************************************************)
(* _get_die_and_other_dice: the pairs (die, other_dice) in the order the   *)
(* generator yields them.                                                  *)
(***************************************************************************)
_get_die_and_other_dice(dice) ==
    [i \in 1..Len(dice) |->
        [die |-> dice[i],
         other_dice |-> SubSeq(dice, 1, i - 1) \o SubSeq(dice, i + 1, Len(dice))]]

(***************************************************************************)
(* _get_all_move_sets.  Its outcome is [err, msg, sets]; sets is the tuple *)
(* of move sequences it returns when err = "none".                         *)
(***************************************************************************)
\* side.progression[-1:]: the last entry of the path, as a tuple
LastEntrySlice(side) ==
    LET p == progression[side]
    IN  IF Len(p) = 0 THEN << >> ELSE <<p[Len(p)]>>

\* zip(side.progression[-1:], spots): the k-th entry of the slice paired
\* with the k-th entry of the board tuple, whose first index is 0
ZipSliceSpots(side, spots) ==
    LET slice == LastEntrySlice(side)
    IN  [k \in 1..PyMin(Len(slice), BoardLen) |->
            [i |-> slice[k], spot |-> spots[k - 1]]]

RECURSIVE OwnedOf(_, _)
OwnedOf(pairs, side) ==
    IF Len(pairs) = 0 THEN << >>
    ELSE (IF owns_spot(side, Head(pairs).spot)
          THEN <<Head(pairs).i>> ELSE << >>) \o OwnedOf(Tail(pairs), side)

\* tuple(i for i, spot in zip(side.progression[-1:], spots)
\*       if side.owns_spot(spot))
start_spots_of(spots, side) == OwnedOf(ZipSliceSpots(side, spots), side)

EnumOutcome(err, msg, sets) == [err |-> err, msg |-> msg, sets |-> sets]

\* the variables of one activation of _get_all_move_sets that its loops
\* read: the arguments and start_spots
EnumFrame(spots, jail, side, remaining_dice, start_spots) ==
    [spots |-> spots, jail |-> jail, side |-> side,
     remaining_dice |-> remaining_dice, start_spots |-> start_spots]

RECURSIVE _get_all_move_sets(_, _, _, _)
RECURSIVE enum_loop(_, _, _, _)
\* the else clause of the try: the recursive call has returned sub; each of
\* its sequences, with move put in front, is added to all_move_sets
enum_recursed(frame, si, di, acc, move, sub) ==
    IF sub.err # "none" THEN sub
    ELSE enum_loop(frame, si, di + 1,
                   acc \o [k \in 1..Len(sub.sets) |-> <<move>> \o sub.sets[k]])

\* the try statement with a bare except that does not skip the die: the
\* enumeration carries on from the state _make_move was given
enum_tried_unguarded(frame, si, di, acc, move, other_dice, made) ==
    enum_recursed(frame, si, di, acc, move,
                  _get_all_move_sets(made.spots, made.jail, frame.side,
                                     other_dice))

\* the try statement, _make_move having ended with the outcome made
enum_tried(frame, si, di, acc, move, other_dice, made) ==
    IF made.err = "IllegalMoveException"
    THEN enum_loop(frame, si, di + 1, acc)
    ELSE IF made.err # "none"
    THEN EnumOutcome(made.err, made.msg, << >>)
    ELSE enum_recursed(frame, si, di, acc, move,
                       _get_all_move_sets(made.spots, made.jail, frame.side,
                                          other_dice))

\* the pair the generator yields for the di-th die
enum_pair(frame, di) == _get_die_and_other_dice(frame.remaining_dice)[di]

\* the move of the loop body
enum_move(frame, si, di) ==
    MoveTuple(frame.side, frame.start_spots[si], enum_pair(frame, di).die)

\* the two nested for loops, at start_spots[si] and the di-th die, with
\* all_move_sets = acc
enum_loop(frame, si, di, acc) ==
    IF si > Len(frame.start_spots) THEN EnumOutcome("none", "", acc)
    ELSE IF di > Len(frame.remaining_dice)
    THEN enum_loop(frame, si + 1, 1, acc)
    ELSE enum_tried(frame, si, di, acc, enum_move(frame, si, di),
                    enum_pair(frame, di).other_dice,
                    _make_move(frame.spots, frame.jail,
                               enum_move(frame, si, di)))

enum_starts(frame) ==
    IF Len(frame.start_spots) = 0
    THEN EnumOutcome("none", "", <<NO_MOVE_EMPTY_SET>>)
    ELSE enum_loop(frame, 1, 1, << >>)

_get_all_move_sets(spots, jail, side, remaining_dice) ==
    IF Len(remaining_dice) = 0
    THEN EnumOutcome("none", "", <<NO_MOVE_EMPTY_SET>>)
    ELSE enum_starts(EnumFrame(spots, jail, side, remaining_dice,
                               start_spots_of(spots, side)))

(***************************************************************************)
(* _get_all_optimal_moves.  Its outcome is [err, msg, optimal]; optimal is *)
(* the set it returns when err = "none".                                   *)
(***************************************************************************)
\* sum(move.effective_distance for move in move_set)
RECURSIVE rating_of(_)
rating_of(move_set) ==
    IF Len(move_set) = 0 THEN 0
    ELSE effective_distance(Head(move_set)) + rating_of(Tail(move_set))

\* max(ratings) of a non-empty tuple
PyMaxOf(ratings) ==
    CHOOSE r \in {ratings[k] : k \in 1..Len(ratings)} :
        \A k \in 1..Len(ratings) : ratings[k] <= r

\* the set comprehension of the return statement
optimal_best(move_sets, ratings, best_rating) ==
    [err |-> "none", msg |-> "",
     optimal |-> {move_sets[k] :
                    k \in {j \in 1..Len(ratings) : ratings[j] = best_rating}}]

\* best_rating = max(ratings), which raises ValueError on an empty tuple
optimal_rated(move_sets, ratings) ==
    IF Len(ratings) = 0
    THEN [err |-> "ValueError", msg |-> "max() arg is an empty sequence",
          optimal |-> {}]
    ELSE optimal_best(move_sets, ratings, PyMaxOf(ratings))

\* the body of _get_all_optimal_moves once _get_all_move_sets has ended
optimal_of(all_legal_move_sets) ==
    IF all_legal_move_sets.err # "none"
    THEN [err |-> all_legal_move_sets.err, msg |-> all_legal_move_sets.msg,
          optimal |-> {}]
    ELSE optimal_rated(all_legal_move_sets.sets,
                       [k \in 1..Len(all_legal_move_sets.sets) |->
                            rating_of(all_legal_move_sets.sets[k])])

_get_all_optimal_moves(spots, jail, side, rolled_dice) ==
    optimal_of(_get_all_move_sets(spots, jail, side, rolled_dice))

(***************************************************************************)
(* play.  Its outcome is that of _make_move, with the field consulted:     *)
(* whether _get_all_optimal_moves was called.                              *)
(***************************************************************************)
\* all(move.uses_whole_roll for move in move_set)
all_use_whole_roll(move_set) ==
    \A k \in 1..Len(move_set) : uses_whole_roll(move_set[k])

\* for move in move_set: spots, jail = _make_move(spots, jail, move)
\* from the k-th move on; caller is the content of the objects play was
\* given, which only the first _make_move call receives
RECURSIVE play_loop(_, _, _, _, _)
play_made(move_set, k, caller, made) ==
    IF made.err # "none"
    THEN [made EXCEPT !.caller = IF k = 1 THEN made.caller ELSE caller]
    ELSE play_loop(made.spots, made.jail, move_set, k + 1,
                   IF k = 1 THEN made.caller ELSE caller)

play_loop(spots, jail, move_set, k, caller) ==
    IF k > Len(move_set)
    THEN [err |-> "none", msg |-> "", spots |-> spots, jail |-> jail,
          caller |-> caller]
    ELSE play_made(move_set, k, caller,
                   _make_move(spots, jail, move_set[k]))

WithConsulted(outcome, consulted) ==
    [err |-> outcome.err, msg |-> outcome.msg, spots |-> outcome.spots,
     jail |-> outcome.jail, caller |-> outcome.caller,
     consulted |-> consulted]

\* the check that the chosen sequence is among the optimal ones
play_checked(spots, jail, move_set, optimal_moves) ==
    IF optimal_moves.err # "none"
    THEN [err |-> optimal_moves.err, msg |-> optimal_moves.msg,
          spots |-> spots, jail |-> jail,
          caller |-> [spots |-> spots, jail |-> jail], consulted |-> TRUE]
    ELSE IF move_set \notin optimal_moves.optimal
    THEN [err |-> "IllegalMoveException",
          msg |-> "More optimal moves existed.",
          spots |-> spots, jail |-> jail,
          caller |-> [spots |-> spots, jail |-> jail], consulted |-> TRUE]
    ELSE WithConsulted(play_loop(spots, jail, move_set, 1,
                                 [spots |-> spots, jail |-> jail]), TRUE)

\* play without the exemption of the sequences that use every die whole
play_always_checked(spots, jail, side, move_set, rolled_dice) ==
    play_checked(spots, jail, move_set,
                 _get_all_optimal_moves(spots, jail, side, rolled_dice))

play(spots, jail, side, move_set, rolled_dice) ==
    IF ~all_use_whole_roll(move_set)
    THEN play_checked(spots, jail, move_set,
                      _get_all_optimal_moves(spots, jail, side, rolled_dice))
    ELSE WithConsulted(play_loop(spots, jail, move_set, 1,
                                 [spots |-> spots, jail |-> jail]), FALSE)

(***************************************************************************)
(* roll_dice, for the two values a and b that random.choice draws.         *)
(***************************************************************************)
\* insert x into the ascending tuple s
RECURSIVE InsertSorted(_, _)
InsertSorted(x, s) ==
    IF Len(s) = 0 THEN <<x>>
    ELSE IF x <= Head(s) THEN <<x>> \o s
    ELSE <<Head(s)>> \o InsertSorted(x, Tail(s))

\* tuple(sorted(rolls))
RECURSIVE PySorted(_)
PySorted(rolls) ==
    IF Len(rolls) = 0 THEN << >>
    ELSE InsertSorted(Head(rolls), PySorted(Tail(rolls)))

\* roll_dice without the sort
roll_dice_unsorted(a, b) ==
    LET rolls == <<a, b>>
    IN  IF a = b THEN rolls \o rolls ELSE rolls

roll_dice(a, b) ==
    LET rolls == <<a, b>>
    IN  PySorted(IF a = b THEN rolls \o rolls ELSE rolls)

(***************************************************************************)
(* The state machine: a caller that holds a board and a jail and calls     *)
(* the functions of board.py on them.  A successful _make_move or play     *)
(* gives the caller its next board and jail; after a call that raised the  *)
(* caller still holds the objects it passed in.                            *)
(***************************************************************************)
VARIABLES
    spots,   \* the caller's board: a function on Points
    jail,    \* the caller's jail
    moves,   \* successful _make_move and play calls so far
    call,    \* the last call: its name, its arguments, the state it was given
    ret      \* the outcome of the last call

vars == <<spots, jail, moves, call, ret>>

RECURSIVE SumOver(_, _)
SumOver(f, S) ==
    IF S = {} THEN 0
    ELSE LET x == CHOOSE y \in S : TRUE
         IN  f[x] + SumOver(f, S \ {x})

\* the points that hold checkers in an initial position: 3 is in BLACK's
\* last quarter and outside WHITE's, 20 and 22 are in WHITE's last quarter
\* and outside BLACK's
InitPoints == {3, 20, 22}

\* a side's checkers in an initial position: n in jail, the rest stacked
\* on the initial points
InitStacks(n) ==
    {f \in [InitPoints -> 0..MaxCheckers] :
        SumOver(f, InitPoints) + n <= MaxCheckers}

InitBoards(jw, jb) ==
    {[p \in Points |-> IF p \in InitPoints THEN wb[1][p] - wb[2][p] ELSE 0] :
        wb \in {x \in InitStacks(jw) \X InitStacks(jb) :
                    \A p \in InitPoints : x[1][p] = 0 \/ x[2][p] = 0}}

\* the jail with jw WHITE and jb BLACK checkers: the empty tuple the callers
\* start with, or an entry for each side whose sign is the side's token
InitJail(jw, jb) ==
    IF jw = 0 /\ jb = 0 THEN << >>
    ELSE [s \in Sides |-> IF s = "WHITE" THEN jw ELSE -jb]

\* between calls the caller holds no call and no outcome
Idle == [op |-> "idle"]
NoOutcome == [err |-> "none"]

Init ==
    /\ \E jw \in 0..MaxCheckers, jb \in 0..MaxCheckers :
        /\ spots \in InitBoards(jw, jb)
        /\ jail = InitJail(jw, jb)
    /\ moves = 0
    /\ call = Idle
    /\ ret = NoOutcome

\* the starts a caller tries: the jail flag, every point that holds a
\* checker of either side, and the two ends of the board
MoveStarts ==
    {START_FROM_JAIL_FLAG} \cup {p \in Points : spots[p] # 0} \cup {0, 25}

MakeMove ==
    /\ call = Idle
    /\ moves < MaxMoves
    /\ \E side \in Sides, start \in MoveStarts, die \in DICE_CHOICES :
        /\ call' = [op |-> "make_move", move |-> MoveTuple(side, start, die),
                    spots |-> spots, jail |-> jail]
        /\ ret' = _make_move(spots, jail, MoveTuple(side, start, die))
        /\ spots' = IF ret'.err = "none" THEN ret'.spots
                    ELSE ret'.caller.spots
        /\ jail' = IF ret'.err = "none" THEN ret'.jail ELSE ret'.caller.jail
        /\ moves' = IF ret'.err = "none" THEN moves + 1 ELSE moves

\* the rolls a caller plays with, and the dice of the moves it chooses
PlayRolls == {roll_dice(5, 6), roll_dice(2, 2)}
PlayFaces == {2, 5, 6}

\* the starts of the moves of a chosen sequence: the jail flag and the
\* points the side owns
PlayStarts(side) ==
    {START_FROM_JAIL_FLAG} \cup {p \in Points : owns_spot(side, spots[p])}

SeqsUpTo(S, n) == UNION {[1..k -> S] : k \in 0..n}

Play ==
    /\ call = Idle
    /\ moves < MaxMoves
    /\ \E side \in Sides, rolled_dice \in PlayRolls :
       \E move_set \in SeqsUpTo({MoveTuple(side, start, die) :
                                    start \in PlayStarts(side),
                                    die \in PlayFaces}, MaxSeqLen) :
        /\ call' = [op |-> "play", side |-> side, move_set |-> move_set,
                    dice |-> rolled_dice, spots |-> spots, jail |-> jail]
        /\ ret' = play(spots, jail, side, move_set, rolled_dice)
        /\ spots' = IF ret'.err = "none" THEN ret'.spots
                    ELSE ret'.caller.spots
        /\ jail' = IF ret'.err = "none" THEN ret'.jail ELSE ret'.caller.jail
        /\ moves' = IF ret'.err = "none" THEN moves + 1 ELSE moves

\* every outcome of roll_dice
RollOutcomes == {roll_dice(a, b) : a, b \in DICE_CHOICES}

GetAllMoveSets ==
    /\ call = Idle
    /\ moves < MaxMoves
    /\ \E side \in Sides, remaining_dice \in RollOutcomes :
        /\ call' = [op |-> "get_all_move_sets", side |-> side,
                    dice |-> remaining_dice, spots |-> spots, jail |-> jail]
        /\ ret' = _get_all_move_sets(spots, jail, side, remaining_dice)
        /\ UNCHANGED <<spots, jail, moves>>

GetAllOptimalMoves ==
    /\ call = Idle
    /\ moves < MaxMoves
    /\ \E side \in Sides, rolled_dice \in RollOutcomes :
        /\ call' = [op |-> "get_all_optimal_moves", side |-> side,
                    dice |-> rolled_dice, spots |-> spots, jail |-> jail]
        /\ ret' = _get_all_optimal_moves(spots, jail, side, rolled_dice)
        /\ UNCHANGED <<spots, jail, moves>>

RollDice ==
    /\ call = Idle
    /\ moves < MaxMoves
    /\ \E a \in DICE_CHOICES, b \in DICE_CHOICES :
        /\ call' = [op |-> "roll_dice", a |-> a, b |-> b]
        /\ ret' = [err |-> "none", dice |-> roll_dice(a, b)]
        /\ UNCHANGED <<spots, jail, moves>>

\* the caller has taken the outcome of its call and is ready for the next
Return ==
    /\ call # Idle
    /\ call' = Idle
    /\ ret' = NoOutcome
    /\ UNCHANGED <<spots, jail, moves>>

Next ==
    \/ MakeMove
    \/ Play
    \/ GetAllMoveSets
    \/ GetAllOptimalMoves
    \/ RollDice
    \/ Return

Spec == Init /\ [][Next]_vars

\* the caller that only calls _make_move
NextMove ==
    \/ MakeMove
    \/ Return

SpecMove == Init /\ [][NextMove]_vars

\* the caller that only calls play
NextPlay ==
    \/ Play
    \/ Return

SpecPlay == Init /\ [][NextPlay]_vars

\* the caller that only rolls the dice
NextRoll ==
    \/ RollDice
    \/ Return

SpecRoll == Init /\ [][NextRoll]_vars

\* a call of Side.owns_spot on any spot value
OwnsSpot ==
    /\ call = Idle
    /\ moves < MaxMoves
    /\ \E side \in Sides, spot_value \in (-MaxSpotValue)..MaxSpotValue :
        /\ call' = [op |-> "owns_spot", side |-> side,
                    spot_value |-> spot_value]
        /\ ret' = [err |-> "none", owns |-> owns_spot(side, spot_value)]
        /\ UNCHANGED <<spots, jail, moves>>

\* a read of Side.progression
Progression ==
    /\ call = Idle
    /\ moves < MaxMoves
    /\ \E side \in Sides :
        /\ call' = [op |-> "progression", side |-> side]
        /\ ret' = [err |-> "none", path |-> progression[side]]
        /\ UNCHANGED <<spots, jail, moves>>

\* the caller that only reads the attributes of the sides
NextSide ==
    \/ OwnsSpot
    \/ Progression
    \/ Return

SpecSide == Init /\ [][NextSide]_vars

(***************************************************************************)
(* What the claims speak of.                                               *)
(***************************************************************************)
\* the number of checkers of side on board point p
CheckersAt(board, p, side) ==
    IF owns_spot(side, board[p]) THEN Abs(board[p]) ELSE 0

\* the number of checkers of side in the jail
CheckersInJail(jl, side) == Abs(JailGet(jl, side))

\* a side's checkers: on the board (home included) and in jail
TotalCheckers(board, jl, side) ==
    SumOver([p \in Points |-> CheckersAt(board, p, side)], Points)
        + CheckersInJail(jl, side)

\* the points of a side's path before its last 7 entries
OutsideLastQuarter(side) ==
    {progression[side][k] : k \in 1..(Len(progression[side]) - 7)}

HasCheckerOutsideLastQuarter(board, side) ==
    \E p \in OutsideLastQuarter(side) : owns_spot(side, board[p])

\* the dice of a tuple, as a set
DiceOf(dice) == {dice[k] : k \in 1..Len(dice)}

\* the index set of the sequences in sets that begin with move
StartingWith(sets, move) ==
    {k \in 1..Len(sets) : Len(sets[k]) > 0 /\ sets[k][1] = move}

(***************************************************************************)
(* C1: whenever the side owns a board point and _make_move succeeds for a  *)
(* move from that point with one of the dice, _get_all_move_sets returns a *)
(* sequence that begins with that move, and every sequence it returns      *)
(* begins from a point the side owns.  Stated for a side with nothing in   *)
(* jail.  The code looks for the starts in zip(side.progression[-1:],      *)
(* spots), which is the one pair (home, spots[0]): the claim fails.        *)
(***************************************************************************)
C1_EnumerationStartsFromEveryOwnedPoint ==
    (call.op = "get_all_move_sets" /\ JailGet(call.jail, call.side) = 0) =>
        /\ ret.err = "none"
        /\ \A p \in Points, die \in DiceOf(call.dice) :
            (/\ owns_spot(call.side, call.spots[p])
             /\ _make_move(call.spots, call.jail,
                           MoveTuple(call.side, p, die)).err = "none")
                => StartingWith(ret.sets, MoveTuple(call.side, p, die)) # {}
        /\ \A k \in 1..Len(ret.sets) :
            Len(ret.sets[k]) > 0 =>
                /\ ret.sets[k][1].start \in Points
                /\ owns_spot(call.side, call.spots[ret.sets[k][1].start])

(***************************************************************************)
(* C2: _make_move of a move whose effective end holds 2 or more checkers   *)
(* of the other side raises IllegalMoveException.  Stated for the moves    *)
(* that leave a point the mover owns and travel.  For WHITE the code finds *)
(* every BLACK stack stompable (a negative value is < 2) and ends in the   *)
(* ValueError of _increment_for_side: the claim fails.                     *)
(***************************************************************************)
C2_BlockedPointRaisesIllegalMove ==
    (/\ call.op = "make_move"
     /\ ~starts_in_jail(call.move)
     /\ owns_spot(call.move.side, call.spots[effective_start(call.move)])
     /\ ~direction_raises(call.move)
     /\ CheckersAt(call.spots, effective_end(call.move),
                   other_side(call.move.side)) >= 2)
        => ret.err = "IllegalMoveException"

\* the part of C2 the code keeps: BLACK is stopped by a WHITE stack
C2_BlackIsBlocked ==
    (/\ call.op = "make_move"
     /\ call.move.side = "BLACK"
     /\ ~starts_in_jail(call.move)
     /\ owns_spot("BLACK", call.spots[effective_start(call.move)])
     /\ ~direction_raises(call.move)
     /\ CheckersAt(call.spots, effective_end(call.move), "WHITE") >= 2)
        => ret.err = "IllegalMoveException"

(***************************************************************************)
(* C3: a successful _make_move leaves each side's number of checkers       *)
(* (board plus jail) as it was; a capture takes exactly one checker of the *)
(* other side off the destination and adds exactly one to its jail entry;  *)
(* otherwise the other side's jail entry is unchanged; the mover's own     *)
(* jail entry changes only by the one checker of a re-entry.               *)
(***************************************************************************)
IsCapture(board, move) ==
    owns_spot(other_side(move.side), board[effective_end(move)])

C3_MovePreservesCheckerCounts ==
    (call.op = "make_move" /\ ret.err = "none") =>
        LET move == call.move
            side == move.side
            other == other_side(side)
            end == effective_end(move)
        IN  /\ \A s \in Sides :
                TotalCheckers(spots, jail, s)
                    = TotalCheckers(call.spots, call.jail, s)
            /\ IsCapture(call.spots, move) =>
                /\ CheckersAt(spots, end, other)
                    = CheckersAt(call.spots, end, other) - 1
                /\ CheckersInJail(jail, other)
                    = CheckersInJail(call.jail, other) + 1
            /\ ~IsCapture(call.spots, move) =>
                JailGet(jail, other) = JailGet(call.jail, other)
            /\ CheckersInJail(jail, side)
                = CheckersInJail(call.jail, side)
                    - (IF starts_in_jail(move) THEN 1 ELSE 0)

\* a capture has just been made, by a checker that re-entered from jail or
\* by one that left a point
C3_CaptureMade ==
    /\ call.op = "make_move"
    /\ ret.err = "none"
    /\ IsCapture(call.spots, call.move)
    /\ moves = 2

(***************************************************************************)
(* C4: when the mover owns a checker on its path before the last 7         *)
(* entries, _make_move of a move whose effective end is the mover's home   *)
(* raises IllegalMoveException.  A move that starts on the home index has  *)
(* its effective end there too, and MoveTuple.direction divides by zero    *)
(* before any check is made: the claim fails for it.                       *)
(***************************************************************************)
C4_BearOffOutsideLastQuarterRaisesIllegalMove ==
    (/\ call.op = "make_move"
     /\ effective_end(call.move) = home(call.move.side)
     /\ HasCheckerOutsideLastQuarter(call.spots, call.move.side))
        => ret.err = "IllegalMoveException"

\* the part of C4 the code keeps: the moves that travel
C4_TravellingBearOffIsRejected ==
    (/\ call.op = "make_move"
     /\ effective_end(call.move) = home(call.move.side)
     /\ ~direction_raises(call.move)
     /\ HasCheckerOutsideLastQuarter(call.spots, call.move.side))
        => ret.err = "IllegalMoveException"

(***************************************************************************)
(* C5: for a chosen sequence with a move that does not use its whole die,  *)
(* play raises IllegalMoveException exactly when the sequence is not one   *)
(* of the legal sequences of greatest total distance; it accepts such a    *)
(* sequence that bears off with an overshooting die.  Stated for a legal   *)
(* sequence, with dice among those rolled, whose total distance is the     *)
(* side's whole pip count: it brings every checker home, so no legal       *)
(* sequence travels farther.  The code compares it with what               *)
(* _get_all_move_sets returns, which is never more than the empty          *)
(* sequence: the claim fails.                                              *)
(***************************************************************************)
\* the distance of all of a side's checkers from its home
PipCount(board, jl, side) ==
    SumOver([p \in Points |->
                CheckersAt(board, p, side) * Abs(home(side) - p)], Points)
        + CheckersInJail(jl, side) * Abs(home(side) - jail_start(side))

\* how many entries of the tuple equal x
Occurrences(tuple, x) == Cardinality({k \in 1..Len(tuple) : tuple[k] = x})

\* each die of the sequence is matched to a rolled die of its own
UsesRolledDice(move_set, rolled_dice) ==
    \A x \in DICE_CHOICES :
        Occurrences([k \in 1..Len(move_set) |-> move_set[k].die_roll], x)
            <= Occurrences(rolled_dice, x)

\* the moves applied one after the other, each to the state the ones
\* before it produced: [err, spots, jail]
RECURSIVE Threaded(_, _, _)
Threaded(board, jl, move_set) ==
    IF Len(move_set) = 0 THEN [err |-> "none", spots |-> board, jail |-> jl]
    ELSE LET before == Threaded(board, jl,
                                SubSeq(move_set, 1, Len(move_set) - 1))
         IN  IF before.err # "none" THEN before
             ELSE LET made == _make_move(before.spots, before.jail,
                                         move_set[Len(move_set)])
                  IN  [err |-> made.err, spots |-> made.spots,
                       jail |-> made.jail]

C5_PlayAcceptsLegalSequenceOfGreatestDistance ==
    (/\ call.op = "play"
     /\ ~all_use_whole_roll(call.move_set)
     /\ UsesRolledDice(call.move_set, call.dice)
     /\ Threaded(call.spots, call.jail, call.move_set).err = "none"
     /\ rating_of(call.move_set)
            = PipCount(call.spots, call.jail, call.side))
        => ret.err = "none"

(***************************************************************************)
(* C6: for a chosen sequence whose moves all use their whole die, play     *)
(* does not call _get_all_optimal_moves and does not raise "More optimal   *)
(* moves existed."; it ends as the moves applied in order end, and when    *)
(* they all succeed it returns the state they produce.                     *)
(***************************************************************************)
C6_WholeDieSequenceIsAppliedUnchecked ==
    (call.op = "play"
        /\ \A k \in 1..Len(call.move_set) :
                effective_distance(call.move_set[k])
                    = call.move_set[k].die_roll)
        => /\ ~ret.consulted
           /\ ret.msg # "More optimal moves existed."
           /\ ret.err = Threaded(call.spots, call.jail, call.move_set).err
           /\ ret.err = "none" =>
                /\ ret.spots
                    = Threaded(call.spots, call.jail, call.move_set).spots
                /\ ret.jail
                    = Threaded(call.spots, call.jail, call.move_set).jail
                /\ spots = ret.spots
                /\ jail = ret.jail

\* play has applied two moves that each used a whole die
C6_WholeDieTurnPlayed ==
    /\ call.op = "play"
    /\ Len(call.move_set) = 2
    /\ \A k \in 1..2 : uses_whole_roll(call.move_set[k])
    /\ ret.err = "none"
    /\ spots # call.spots

(***************************************************************************)
(* C7: for every board, jail, side and dice _get_all_optimal_moves returns *)
(* a non-empty subset of the sequences _get_all_move_sets returns, holding *)
(* exactly those of greatest total distance.  When the side owns spots[0]  *)
(* and a die is left, _get_all_move_sets tries a move from the home index, *)
(* MoveTuple.direction divides by zero and nothing is returned: the claim  *)
(* fails.                                                                  *)
(***************************************************************************)
TupleRange(tuple) == {tuple[k] : k \in 1..Len(tuple)}

IsGreatestSubset(optimal, enumerated) ==
    /\ optimal # {}
    /\ optimal \subseteq enumerated
    /\ \A x \in enumerated :
        /\ \A o \in optimal : rating_of(o) >= rating_of(x)
        /\ (\A y \in enumerated : rating_of(y) <= rating_of(x))
                => x \in optimal

C7_OptimalIsTheGreatestNonEmptySubset ==
    call.op = "get_all_optimal_moves" =>
        /\ ret.err = "none"
        /\ IsGreatestSubset(
              ret.optimal,
              TupleRange(_get_all_move_sets(call.spots, call.jail, call.side,
                                            call.dice).sets))

\* the part of C7 the code keeps: what it returns, when it returns
C7_ReturnedSetIsTheGreatestSubset ==
    (call.op = "get_all_optimal_moves" /\ ret.err = "none") =>
        IsGreatestSubset(
            ret.optimal,
            TupleRange(_get_all_move_sets(call.spots, call.jail, call.side,
                                          call.dice).sets))

(***************************************************************************)
(* C8: when the side's jail entry is not zero, every die with which        *)
(* _make_move accepts the re-entry from jail begins a sequence that        *)
(* _get_all_move_sets returns, and no returned sequence begins from a      *)
(* board point.  The code never makes a move that starts in jail: the      *)
(* claim fails.                                                            *)
(***************************************************************************)
C8_JailedSideEntersFromJail ==
    (call.op = "get_all_move_sets" /\ JailGet(call.jail, call.side) # 0) =>
        /\ ret.err = "none"
        /\ \A die \in DiceOf(call.dice) :
            _make_move(call.spots, call.jail,
                       MoveTuple(call.side, START_FROM_JAIL_FLAG, die)).err
                    = "none"
                => StartingWith(ret.sets,
                       MoveTuple(call.side, START_FROM_JAIL_FLAG, die)) # {}
        /\ \A k \in 1..Len(ret.sets) :
            Len(ret.sets[k]) > 0 => starts_in_jail(ret.sets[k][1])

(***************************************************************************)
(* C9: when _make_move or play raises, the board and the jail the caller   *)
(* passed in are as they were, also when play has already applied the      *)
(* first moves of the sequence: the state they produced is dropped.        *)
(***************************************************************************)
C9_FailedCallLeavesCallerState ==
    (call.op \in {"make_move", "play"} /\ ret.err # "none") =>
        /\ ret.caller = [spots |-> call.spots, jail |-> call.jail]
        /\ spots = call.spots
        /\ jail = call.jail

\* play has applied the first move of two and the second was rejected
C9_SecondMoveRejected ==
    /\ call.op = "play"
    /\ Len(call.move_set) = 2
    /\ ~ret.consulted
    /\ ret.err # "none"
    /\ _make_move(call.spots, call.jail, call.move_set[1]).err = "none"
    /\ ret.spots # call.spots

(***************************************************************************)
(* C10: roll_dice returns values in 1..6 only: four copies of the value    *)
(* when the two draws are equal, else the two draws in ascending order;    *)
(* its outcomes are the 21 such tuples.                                    *)
(***************************************************************************)
ExpectedRolls ==
    {<<x[1], x[2]>> : x \in {y \in DICE_CHOICES \X DICE_CHOICES : y[1] < y[2]}}
        \cup {<<a, a, a, a>> : a \in DICE_CHOICES}

C10_RollIsSortedPairOrFourEqual ==
    /\ call.op = "roll_dice" =>
        /\ \A k \in 1..Len(ret.dice) : ret.dice[k] \in 1..6
        /\ call.a = call.b => ret.dice = <<call.a, call.a, call.a, call.a>>
        /\ call.a # call.b =>
            /\ Len(ret.dice) = 2
            /\ ret.dice[1] < ret.dice[2]
            /\ {ret.dice[1], ret.dice[2]} = {call.a, call.b}
    /\ {roll_dice(a, b) : a \in DICE_CHOICES, b \in DICE_CHOICES}
            = ExpectedRolls
    /\ Cardinality(ExpectedRolls) = 21

\* the larger value was drawn first and comes out last
C10_DrawsComeOutSorted ==
    /\ call.op = "roll_dice"
    /\ call.a > call.b
    /\ ret.dice = <<call.b, call.a>>

(***************************************************************************)
(* C11: for every spot value v, owns_spot is true for exactly one side     *)
(* when v is not 0, for WHITE exactly when v > 0 and for BLACK exactly     *)
(* when v < 0, and false for both sides when v = 0.                        *)
(***************************************************************************)
C11_OwnsSpotFollowsTheSign ==
    call.op = "owns_spot" =>
        LET v == call.spot_value
        IN  /\ ret.owns <=> \/ (v > 0 /\ call.side = "WHITE")
                            \/ (v < 0 /\ call.side = "BLACK")
            /\ v # 0 => Cardinality({s \in Sides : owns_spot(s, v)}) = 1
            /\ v = 0 => \A s \in Sides : ~owns_spot(s, v)

\* BLACK was found to own a stack of several BLACK checkers
C11_BlackOwnsItsStack ==
    /\ call.op = "owns_spot"
    /\ call.side = "BLACK"
    /\ call.spot_value < -1
    /\ ret.owns

(***************************************************************************)
(* C12: _make_move of a move whose effective end equals its effective      *)
(* start (a checker on the side's home index, whatever the die) raises     *)
(* IllegalMoveException.  The code evaluates MoveTuple.direction first,    *)
(* which divides the distance 0 by abs(0): the claim fails.                *)
(***************************************************************************)
C12_ZeroLengthMoveRaisesIllegalMove ==
    (/\ call.op = "make_move"
     /\ effective_end(call.move) = effective_start(call.move))
        => ret.err = "IllegalMoveException"

\* what the code does with such a move: it raises, and the board and the
\* jail stay as they were
C12_ZeroLengthMoveRaises ==
    (/\ call.op = "make_move"
     /\ effective_end(call.move) = effective_start(call.move))
        => /\ ret.err = "ZeroDivisionError"
           /\ spots = call.spots
           /\ jail = call.jail

(***************************************************************************)
(* C13: _get_all_move_sets ends normally for every board, jail, side and   *)
(* dice of length at most 4: it raises nothing, no sequence it returns is  *)
(* longer than the dice, it returns at least one sequence, and exactly the *)
(* empty sequence when no move from a point the side owns or from its      *)
(* jail is accepted.  When the side owns spots[0] the code tries a move    *)
(* from the home index and the ZeroDivisionError of MoveTuple.direction    *)
(* passes the except clause: the claim fails.                              *)
(***************************************************************************)
\* the starts a side has: the points it owns and, with a jail entry, the
\* jail
StartsOf(board, jl, side) ==
    {p \in Points : owns_spot(side, board[p])}
        \cup (IF JailGet(jl, side) # 0 THEN {START_FROM_JAIL_FLAG} ELSE {})

NoMovePossible(board, jl, side, dice) ==
    \A start \in StartsOf(board, jl, side), die \in DiceOf(dice) :
        _make_move(board, jl, MoveTuple(side, start, die)).err # "none"

C13_EnumerationEndsNormally ==
    call.op = "get_all_move_sets" =>
        /\ Len(call.dice) <= 4
        /\ ret.err = "none"
        /\ Len(ret.sets) >= 1
        /\ \A k \in 1..Len(ret.sets) : Len(ret.sets[k]) <= Len(call.dice)
        /\ NoMovePossible(call.spots, call.jail, call.side, call.dice)
                => ret.sets = <<NO_MOVE_EMPTY_SET>>

\* the part of C13 the code keeps: when it returns, it returns at least
\* one sequence and none longer than the dice
C13_ReturnedSequencesAreBounded ==
    (call.op = "get_all_move_sets" /\ ret.err = "none") =>
        /\ Len(ret.sets) >= 1
        /\ \A k \in 1..Len(ret.sets) : Len(ret.sets[k]) <= Len(call.dice)
        /\ NoMovePossible(call.spots, call.jail, call.side, call.dice)
                => ret.sets = <<NO_MOVE_EMPTY_SET>>

CheckersOnBoard(board, side) ==
    SumOver([p \in Points |-> CheckersAt(board, p, side)], Points)

JailIsNonNegative(jl) == \A s \in Sides : JailGet(jl, s) >= 0

C15_JailCountsAreNonNegative ==
    (/\ call.op = "make_move"
     /\ ret.err = "none"
     /\ JailIsNonNegative(call.jail))
        => \A s \in Sides :
            /\ JailGet(jail, s) >= 0
            /\ JailGet(jail, s)
                = TotalCheckers(call.spots, call.jail, s)
                    - CheckersOnBoard(spots, s)

\* the part of C15 the code keeps: the magnitude of the entry is the
\* number of the side's checkers off the board, its sign the side's token
C15_JailMagnitudeCountsTheJailed ==
    (call.op = "make_move" /\ ret.err = "none") =>
        \A s \in Sides :
            /\ Abs(JailGet(jail, s))
                = TotalCheckers(call.spots, call.jail, s)
                    - CheckersOnBoard(spots, s)
            /\ JailGet(jail, s) # 0 => owns_spot(s, JailGet(jail, s))

(***************************************************************************)
(* C16: while a side's jail entry is not zero, no move of that side from a *)
(* board point is applied: _make_move returns no new state for it, and in  *)
(* a sequence play accepts every move from a point finds the side's jail   *)
(* entry zero in the state the moves before it produced.  _make_move reads *)
(* the jail only for a move that starts there: the claim fails.            *)
(***************************************************************************)
\* the k-th move of the sequence leaves a point while the side's jail
\* entry, in the state the first k - 1 moves produced, is not zero
LeavesPointWhileJailed(board, jl, move_set, k) ==
    /\ ~starts_in_jail(move_set[k])
    /\ JailGet(Threaded(board, jl, SubSeq(move_set, 1, k - 1)).jail,
               move_set[k].side) # 0

C16_JailedSideMakesNoBoardMove ==
    /\ (/\ call.op = "make_move"
        /\ ~starts_in_jail(call.move)
        /\ JailGet(call.jail, call.move.side) # 0) => ret.err # "none"
    /\ (call.op = "play" /\ ret.err = "none") =>
            \A k \in 1..Len(call.move_set) :
                ~LeavesPointWhileJailed(call.spots, call.jail,
                                        call.move_set, k)

(***************************************************************************)
(* C17: the two sides' paths each have 25 entries, each ends at the side's *)
(* home, and each is the other side's path in reverse order.  WHITE's path *)
(* is 1..25 and BLACK's is 24..0: each ends at its own home, so neither is *)
(* the reverse of the other.  What holds: the 24 entries before the home   *)
(* are the other side's 24 entries before its home, in reverse order.      *)
(***************************************************************************)
\* the tuple in reverse order
Reversed(tuple) == [k \in 1..Len(tuple) |-> tuple[Len(tuple) + 1 - k]]

\* the path without its last entry
BeforeHome(path) == SubSeq(path, 1, Len(path) - 1)

C17_PathsAreReversesOfEachOther ==
    call.op = "progression" =>
        /\ Len(ret.path) = BoardLen - 1
        /\ ret.path[Len(ret.path)] = home(call.side)
        /\ ret.path = Reversed(progression[other_side(call.side)])

C17_PathsBeforeHomeAreReverses ==
    call.op = "progression" =>
        /\ Len(ret.path) = BoardLen - 1
        /\ ret.path[Len(ret.path)] = home(call.side)
        /\ BeforeHome(ret.path)
            = Reversed(BeforeHome(progression[other_side(call.side)]))

\* BLACK's path was read: it begins at 24 and ends at BLACK's home
C17_BlackPathRead ==
    /\ call.op = "progression"
    /\ call.side = "BLACK"
    /\ Len(ret.path) > 1
    /\ ret.path[1] = jail_start("BLACK") - 1
    /\ ret.path[Len(ret.path)] = home("BLACK")

(***************************************************************************)
(* C18: play applies no sequence whose dice are not among the rolled ones, *)
(* each move's die matched to a rolled die of its own; a sequence it       *)
(* applies has at most as many moves as dice were rolled.  For a sequence  *)
(* whose moves all use their whole die play does not read rolled_dice at   *)
(* all: the claim fails.                                                   *)
(***************************************************************************)
C18_PlayedDiceAreRolledDice ==
    (call.op = "play" /\ ret.err = "none") =>
        /\ UsesRolledDice(call.move_set, call.dice)
        /\ Len(call.move_set) <= Len(call.dice)

(***************************************************************************)
(* C19: _make_move returns no new state for a move whose origin holds no   *)
(* checker of the mover: when the start point is empty or the other        *)
(* side's, or the move starts in jail and the side's jail entry is zero or *)
(* absent, it raises IllegalMoveException or the ValueError of the spot    *)
(* helpers.  For a start on the mover's home index the error is the        *)
(* ZeroDivisionError of MoveTuple.direction: the claim fails in the kind   *)
(* of the error.                                                           *)
(***************************************************************************)
\* the origin of the move holds no checker of the mover
OriginNotOwned(board, jl, move) ==
    IF starts_in_jail(move) THEN JailGet(jl, move.side) = 0
    ELSE ~owns_spot(move.side, board[effective_start(move)])

C19_MoveFromUnownedOriginRaises ==
    (/\ call.op = "make_move"
     /\ OriginNotOwned(call.spots, call.jail, call.move))
        => /\ ret.err \in {"IllegalMoveException", "ValueError"}
           /\ spots = call.spots
           /\ jail = call.jail

\* the part of C19 the code keeps: no new state is returned, no checker
\* is created
C19_MoveFromUnownedOriginIsNotApplied ==
    (/\ call.op = "make_move"
     /\ OriginNotOwned(call.spots, call.jail, call.move))
        => /\ ret.err # "none"
           /\ spots = call.spots
           /\ jail = call.jail

====
